---- MODULE Spec2Model ----
(***************************************************************************)
(* Model of the static page generator (src/generate-static.js) and of the  *)
(* soot sprite script of the index page (src/unnamed/part_000).            *)
(*                                                                         *)
(* JavaScript strings are sequences of one-character strings, so that      *)
(* split('/'), includes() and template concatenation are computed as the   *)
(* code computes them.  A JavaScript value that is either null or an array *)
(* is a record [null, items]; an absent string is the value Null.          *)
(* Fields that the templates only interpolate verbatim (title, director,   *)
(* gender, ...) are carried by the record that a card or tag holds.        *)
(***************************************************************************)
EXTENDS Integers, Sequences, FiniteSets, TLC

VARIABLES
    api,            \* what each endpoint of the remote API would answer
    minifierLoaded, \* whether require('html-minifier') succeeded (line 15)
    fetchState,     \* per endpoint: "pending", "ok" or "failed"
    data,           \* the object returned by fetchAllData, mutated in place
    fetched,        \* history: data as it was when fetchAllData returned
    pc,             \* FETCHING, VALIDATING, RENDERING, DONE, FAILED
    step,           \* position inside main/generateStaticFiles
    idx,            \* index of the for..of loop in progress
    written,        \* the writeFileSync calls that completed, in order
    error,          \* what the catch block of main received, or "none"
    exitCode,       \* process exit status, -1 while running
    sootReady,      \* initSootEasterEgg has attached the click listeners
    sprite,         \* per soot sprite: its classes and its inline animation
    explosions,     \* the explosions triggered so far, with their timers
    clicks,         \* number of clicks on sprites handled so far
    lastClick       \* the sprite of the last click, 0 before the first

sootVars == <<sootReady, sprite, explosions, clicks, lastClick>>

vars == <<api, minifierLoaded, fetchState, data, fetched,
          pc, step, idx, written, error, exitCode, sootVars>>

----------------------------------------------------------------------------
(* Bounds of the model *)

MaxFilms == 3   \* films in a generated list of films
MaxRefs == 1    \* URLs in a generated list of references
MaxClicks == 2  \* clicks on soot sprites

----------------------------------------------------------------------------
(* Strings *)

Null == <<"null">>

Slash == <<"/">>
Digits == {"0", "1", "2", "3", "4", "5", "6", "7", "8", "9"}

sFilms == <<"f", "i", "l", "m", "s">>
sPeople == <<"p", "e", "o", "p", "l", "e">>
sSpecies == <<"s", "p", "e", "c", "i", "e", "s">>
sLocations == <<"l", "o", "c", "a", "t", "i", "o", "n", "s">>
sVehicles == <<"v", "e", "h", "i", "c", "l", "e", "s">>
sNone == <<"N", "o", "n", "e">>
sUnknown == <<"U", "n", "k", "n", "o", "w", "n">>
sDotHtml == <<".", "h", "t", "m", "l">>

\* a reference that is a number (42) where a string is expected
NumberRef == <<"#number">>

\* JavaScript truthiness of a value that is a string, a non-zero number or null
Truthy(s) == s # Null /\ s # <<>>

\* typeof s === 'string'
IsString(s) == s # Null /\ s # NumberRef

\* String.prototype.includes
Includes(s, sub) ==
    \E i \in 0..(Len(s) - Len(sub)) : SubSeq(s, i + 1, i + Len(sub)) = sub

\* String.prototype.split('/')
RECURSIVE SplitFrom(_, _, _)
SplitFrom(s, i, cur) ==
    IF i > Len(s) THEN <<cur>>
    ELSE IF s[i] = "/" THEN <<cur>> \o SplitFrom(s, i + 1, <<>>)
    ELSE SplitFrom(s, i + 1, Append(cur, s[i]))

Split(s) == SplitFrom(s, 1, <<>>)

Last(seq) == seq[Len(seq)]

\* parseInt: the value of the longest prefix of decimal digits, NaN (-1) if
\* that prefix is empty
DigitVal(c) == CHOOSE n \in 0..9 : ToString(n) = c

NaN == -1

RECURSIVE ParseDigits(_, _, _)
ParseDigits(s, i, acc) ==
    IF i > Len(s) \/ s[i] \notin Digits THEN acc
    ELSE ParseDigits(s, i + 1, acc * 10 + DigitVal(s[i]))

ParseInt(s) ==
    IF s = <<>> \/ s[1] \notin Digits THEN NaN ELSE ParseDigits(s, 1, 0)

----------------------------------------------------------------------------
(* Arrays that may be null *)

Arr(items) == [null |-> FALSE, items |-> items]
NullArr == [null |-> TRUE, items |-> <<>>]

\* x && Array.isArray(x)
IsArray(x) == ~x.null

----------------------------------------------------------------------------
(* HELPER FUNCTIONS, lines 58-88 *)

\* the URL itself instead of its last part
getIdFromUrl_Whole(url) ==
    IF ~Truthy(url) THEN Null ELSE url

getIdFromUrl(url) ==
    IF ~Truthy(url) THEN Null ELSE Last(Split(url))

\* the last part of the URL compared with the id, instead of includes
RefersToFilm_Exact(entity, filmId) ==
    /\ IsArray(entity.films)
    /\ \E i \in DOMAIN entity.films.items :
          Last(Split(entity.films.items[i])) = filmId

\* the predicate shared by getLocationsForFilm, getPeopleForFilm and
\* getVehiclesForFilm
RefersToFilm(entity, filmId) ==
    /\ IsArray(entity.films)
    /\ \E i \in DOMAIN entity.films.items :
          Includes(entity.films.items[i], filmId)

getLocationsForFilm(filmId, locations) ==
    SelectSeq(locations, LAMBDA location : RefersToFilm(location, filmId))

getPeopleForFilm(filmId, people) ==
    SelectSeq(people, LAMBDA person : RefersToFilm(person, filmId))

getVehiclesForFilm(filmId, vehicles) ==
    SelectSeq(vehicles, LAMBDA vehicle : RefersToFilm(vehicle, filmId))

\* Array.prototype.find by id: the index of the first match, 0 for undefined
FindById(id, array) ==
    IF \E i \in DOMAIN array : array[i].id = id
    THEN CHOOSE i \in DOMAIN array :
            /\ array[i].id = id
            /\ \A j \in 1..(i - 1) : array[j].id # id
    ELSE 0

getSpeciesById(speciesIdOrUrl, speciesArray) ==
    LET speciesId == IF Includes(speciesIdOrUrl, Slash)
                     THEN Last(Split(speciesIdOrUrl))
                     ELSE speciesIdOrUrl
    IN  FindById(speciesId, speciesArray)

----------------------------------------------------------------------------
(* HTML MINIFICATION, lines 127-143: the library's output is opaque *)

minifyHTML(html) ==
    IF ~minifierLoaded THEN html ELSE [minified |-> html]

----------------------------------------------------------------------------
(* HTML TEMPLATES, lines 149-628.  A page is the record of the values its  *)
(* template interpolates; the fixed markup around them is left out.        *)

\* `film_${film.id}.html` and `species_${species.id}.html`
FilmHref(id) == <<"f", "i", "l", "m", "_">> \o id \o sDotHtml
SpeciesHref(id) == <<"s", "p", "e", "c", "i", "e", "s", "_">> \o id \o sDotHtml
IndexHref == <<"i", "n", "d", "e", "x">> \o sDotHtml

\* the operands of the subtraction exchanged
CompareFilms_Descending(a, b) ==
    LET x == ParseInt(a.release_date)
        y == ParseInt(b.release_date)
    IN  IF x = NaN \/ y = NaN THEN 0 ELSE y - x

\* the comparator of films.sort: parseInt(a.release_date) - parseInt(b.release_date),
\* a NaN result being treated as 0
CompareFilms(a, b) ==
    LET x == ParseInt(a.release_date)
        y == ParseInt(b.release_date)
    IN  IF x = NaN \/ y = NaN THEN 0 ELSE x - y

\* a sort that is not stable: an element goes before the elements that
\* compare equal to it
RECURSIVE InsertFilm_Unstable(_, _)
InsertFilm_Unstable(sorted, f) ==
    IF sorted = <<>> THEN <<f>>
    ELSE IF CompareFilms(Head(sorted), f) >= 0 THEN <<f>> \o sorted
    ELSE <<Head(sorted)>> \o InsertFilm_Unstable(Tail(sorted), f)

\* Array.prototype.sort is stable: an element goes after every element that
\* does not compare greater than it
RECURSIVE InsertFilm(_, _)
InsertFilm(sorted, f) ==
    IF sorted = <<>> THEN <<f>>
    ELSE IF CompareFilms(Head(sorted), f) > 0 THEN <<f>> \o sorted
    ELSE <<Head(sorted)>> \o InsertFilm(Tail(sorted), f)

RECURSIVE SortFilmsFrom(_, _)
SortFilmsFrom(films, sorted) ==
    IF films = <<>> THEN sorted
    ELSE SortFilmsFrom(Tail(films), InsertFilm(sorted, Head(films)))

SortFilms(films) == SortFilmsFrom(films, <<>>)

FilmCard(film) == [href |-> FilmHref(film.id), film |-> film]

\* generateIndexPage sorts its argument in place: sortedFilms is the array
\* it was given
generateIndexPage(films) ==
    LET sortedFilms == SortFilms(films)
    IN  [kind |-> "index",
         cards |-> [i \in DOMAIN sortedFilms |-> FilmCard(sortedFilms[i])]]

NoneTag == [href |-> Null, label |-> sNone]
NameTag(entity) == [href |-> Null, label |-> entity.name]

\* new Set(array): insertion order, duplicates by exact equality dropped
RECURSIVE Unique(_)
Unique(seq) ==
    IF seq = <<>> THEN <<>>
    ELSE LET init == Unique(SubSeq(seq, 1, Len(seq) - 1))
             x == seq[Len(seq)]
         IN  IF \E i \in DOMAIN init : init[i] = x THEN init ELSE Append(init, x)

\* lines 335-391: one character card of a film page
CharacterCard(person, species) ==
    LET isString == Truthy(person.species) /\ IsString(person.species)
        found == IF isString THEN getSpeciesById(person.species, species) ELSE 0
        speciesName == IF found # 0 /\ Truthy(species[found].name)
                       THEN species[found].name ELSE sUnknown
    IN  [person |-> person,
         speciesLink |->
            IF Truthy(speciesName) /\ speciesName # sUnknown
            THEN [href |-> SpeciesHref(getIdFromUrl(person.species)),
                  label |-> speciesName]
            ELSE [href |-> Null, label |-> <<>>]]

\* lines 399-410: '' for a reference that resolves to no species, dropped by
\* filter(html => html)
SpeciesTags(uniqueSpecies, species) ==
    LET resolved == SelectSeq(uniqueSpecies,
                        LAMBDA speciesUrl : getSpeciesById(speciesUrl, species) # 0)
    IN  [i \in DOMAIN resolved |->
            LET speciesObj == species[getSpeciesById(resolved[i], species)]
            IN  [href |-> SpeciesHref(speciesObj.id), label |-> speciesObj.name]]

generateFilmPage(film, filmId, d) ==
    LET filmLocations == getLocationsForFilm(filmId, d.locations.items)
        filmPeople == getPeopleForFilm(filmId, d.people.items)
        filmVehicles == getVehiclesForFilm(filmId, d.vehicles.items)
        withSpecies == SelectSeq(filmPeople, LAMBDA person : Truthy(person.species))
        uniqueSpecies == Unique([i \in DOMAIN withSpecies |-> withSpecies[i].species])
    IN  [kind |-> "film",
         film |-> film,
         back |-> IndexHref,
         charactersCount |-> Len(filmPeople),
         characters |-> [i \in DOMAIN filmPeople |->
                            CharacterCard(filmPeople[i], d.species.items)],
         locationsCount |-> Len(filmLocations),
         locationsList |-> IF Len(filmLocations) > 0
                           THEN [i \in DOMAIN filmLocations |-> NameTag(filmLocations[i])]
                           ELSE <<NoneTag>>,
         speciesCount |-> Len(uniqueSpecies),
         speciesList |-> IF Len(uniqueSpecies) > 0
                         THEN SpeciesTags(uniqueSpecies, d.species.items)
                         ELSE <<NoneTag>>,
         vehiclesCount |-> Len(filmVehicles),
         vehiclesList |-> IF Len(filmVehicles) > 0
                          THEN [i \in DOMAIN filmVehicles |-> NameTag(filmVehicles[i])]
                          ELSE <<NoneTag>>]

\* films.some(filmUrl => filmUrl.includes(filmId)) calls includes on a number:
\* some reaches an element that is not a string before it reaches a match
SomeIncludesThrows(items, filmId) ==
    \E i \in DOMAIN items :
        /\ ~IsString(items[i])
        /\ \A j \in 1..(i - 1) : ~Includes(items[j], filmId)

\* one of the callbacks of array.filter in lines 64-83 throws
FilterForFilmThrows(filmId, array) ==
    \E k \in DOMAIN array :
        /\ IsArray(array[k].films)
        /\ SomeIncludesThrows(array[k].films.items, filmId)

\* generateFilmPage throws a TypeError: in one of the three filters, or at
\* line 402, where getSpeciesById calls includes on a species reference of
\* the Set without the typeof check of line 338
generateFilmPageThrows(filmId, d) ==
    \/ FilterForFilmThrows(filmId, d.locations.items)
    \/ FilterForFilmThrows(filmId, d.people.items)
    \/ FilterForFilmThrows(filmId, d.vehicles.items)
    \/ LET filmPeople == getPeopleForFilm(filmId, d.people.items)
       IN  \E i \in DOMAIN filmPeople :
              Truthy(filmPeople[i].species) /\ ~IsString(filmPeople[i].species)

\* no reference is filtered out
NotCollectionName_Off(url) == TRUE

\* lines 505-507 and 519-521: the last non-empty part of the URL is not the
\* name of a collection
CollectionNames == {sPeople, sLocations, sSpecies, sVehicles, sFilms}

NotCollectionName(url) ==
    LET parts == SelectSeq(Split(url), LAMBDA part : Len(part) > 0)
    IN  parts = <<>> \/ Last(parts) \notin CollectionNames

\* lines 502-528: filter the references, look each one up by getIdFromUrl,
\* drop the ones that are not found
ResolveRefs(refs, array) ==
    IF ~IsArray(refs) THEN <<>>
    ELSE LET kept == SelectSeq(refs.items, NotCollectionName)
             found == SelectSeq(kept,
                         LAMBDA url : FindById(getIdFromUrl(url), array) # 0)
         IN  [i \in DOMAIN found |-> array[FindById(getIdFromUrl(found[i]), array)]]

\* url.split('/') at lines 505 and 519 is called on every element of the
\* list: generateSpeciesPage throws a TypeError if one is not a string
RefsThrow(refs) ==
    IsArray(refs) /\ \E i \in DOMAIN refs.items : ~IsString(refs.items[i])

generateSpeciesPageThrows(species) ==
    RefsThrow(species.people) \/ RefsThrow(species.films)

generateSpeciesPage(species, speciesId, d) ==
    LET speciesPeople == ResolveRefs(species.people, d.people.items)
        speciesFilms == ResolveRefs(species.films, d.films.items)
    IN  [kind |-> "species",
         species |-> species,
         back |-> IndexHref,
         charactersCount |-> Len(speciesPeople),
         characters |-> speciesPeople,
         filmsList |-> IF Len(speciesFilms) > 0
                       THEN [i \in DOMAIN speciesFilms |->
                               [href |-> FilmHref(speciesFilms[i].id),
                                label |-> speciesFilms[i].title]]
                       ELSE <<NoneTag>>]

----------------------------------------------------------------------------
(* The answers of the API that the model draws from.  Ids are unique       *)
(* within a collection; a release date starts with a digit.                *)

Endpoints == {"films", "locations", "vehicles", "people", "species"}

idA == <<"a">>
idAB == <<"a", "b">>
idB == <<"b">>
idP == <<"p">>
idS == <<"s">>
idZ == <<"z">>

Url(collection, id) == Slash \o collection \o Slash \o id

Film(id, date) == [id |-> id, release_date |-> date, title |-> <<"T">> \o id]
Person(id, films, species) == [id |-> id, films |-> films, species |-> species]
Species(id, name, people, films) ==
    [id |-> id, name |-> name, people |-> people, films |-> films]
Place(id, films) == [id |-> id, name |-> <<"N">> \o id, films |-> films]

\* sequences of at most n elements of S
SeqsUpTo(S, n) == UNION {[1..k -> S] : k \in 0..n}

UniqueIds(seq) == \A i, j \in DOMAIN seq : seq[i].id = seq[j].id => i = j

RefLists(urls) == {NullArr} \cup {Arr(l) : l \in SeqsUpTo(urls, MaxRefs)}

Dates == {<<"9">>, <<"1", "0">>, <<"1", "0", "-">>}

FilmLists ==
    {l \in SeqsUpTo({Film(id, d) : id \in {idA, idAB, idB, sFilms}, d \in Dates}, MaxFilms) :
        UniqueIds(l)}

FilmRefs == {Url(sFilms, idA), Url(sFilms, idAB), Url(sFilms, idA) \o Slash, NumberRef,
             Url(sFilms, sFilms), Url(sFilms, idZ)}

PeopleRefs == {Url(sPeople, idP), Url(sPeople, sPeople), Url(sPeople, idP) \o Slash, NumberRef,
               Slash \o sPeople, Url(sPeople, idZ)}

SpeciesRefs ==
    {Null, <<>>, Url(sSpecies, idS), idS, Url(sSpecies, idZ), Url(sSpecies, idB), NumberRef}

BaseFilms == <<Film(idAB, <<"1", "0">>), Film(idA, <<"9">>), Film(sFilms, <<"1", "0", "-">>)>>

BasePeople ==
    <<Person(idP, Arr(<<Url(sFilms, idA)>>), Url(sSpecies, idS)),
      Person(sPeople, Arr(<<Url(sFilms, idAB)>>), Null)>>

BaseSpecies ==
    <<Species(idS, <<"N">>,
              Arr(<<Url(sPeople, idP), Url(sPeople, sPeople)>>),
              Arr(<<Url(sFilms, idA), Url(sFilms, sFilms)>>)),
      Species(idZ, <<>>, NullArr, Arr(<<>>))>>

BaseLocations == <<Place(idA, Arr(<<Url(sFilms, idA)>>))>>

BaseVehicles == <<Place(idB, NullArr)>>

Base ==
    [films |-> BaseFilms, locations |-> BaseLocations, vehicles |-> BaseVehicles,
     people |-> BasePeople, species |-> BaseSpecies]

Empty ==
    [films |-> <<>>, locations |-> <<>>, vehicles |-> <<>>,
     people |-> <<>>, species |-> <<>>]

\* the answers the whole run is explored with
Answers == {Base, Empty}

\* the answers rendering is explored with: Base with one collection varied
FilmVariants == {[Base EXCEPT !.films = l] : l \in FilmLists}

PeopleVariants ==
    {[Base EXCEPT !.people = <<Person(id, f, sp)>> \o SubSeq(BasePeople, 1, n)] :
        id \in {idZ}, f \in RefLists(FilmRefs), sp \in SpeciesRefs, n \in 0..2}

SpeciesVariants ==
    {[Base EXCEPT !.species = <<Species(idS, nm, pr, fr)>> \o SubSeq(BaseSpecies, 2, n)] :
        nm \in {<<"N">>, <<>>}, pr \in RefLists(PeopleRefs),
        fr \in RefLists(FilmRefs), n \in 1..2}

PlaceVariants ==
    {[Base EXCEPT !.locations = <<Place(idA, f)>>, !.vehicles = <<Place(idB, g)>>] :
        f, g \in RefLists({Url(sFilms, idA), Url(sFilms, idAB)})}

RenderAnswers == FilmVariants \cup PeopleVariants \cup SpeciesVariants \cup PlaceVariants

----------------------------------------------------------------------------
(* API DATA FETCHER, lines 28-52 *)

NoData ==
    [films |-> NullArr, locations |-> NullArr, vehicles |-> NullArr,
     people |-> NullArr, species |-> NullArr]

\* the soot script is not part of a run of the generator
SootIdle ==
    /\ sootReady = FALSE
    /\ sprite = [s \in {} |-> 0]
    /\ explosions = <<>>
    /\ clicks = 0
    /\ lastClick = 0

Init ==
    /\ SootIdle
    /\ api \in Answers
    /\ minifierLoaded \in BOOLEAN
    /\ fetchState = [e \in Endpoints |-> "pending"]
    /\ data = NoData
    /\ fetched = NoData
    /\ pc = "FETCHING"
    /\ step = "fetch"
    /\ idx = 0
    /\ written = <<>>
    /\ error = "none"
    /\ exitCode = -1

\* fetchAPI: response.ok and response.json() resolves
FetchSucceeds(e) ==
    /\ pc = "FETCHING"
    /\ fetchState[e] = "pending"
    /\ fetchState' = [fetchState EXCEPT ![e] = "ok"]
    /\ UNCHANGED <<sootVars, api, minifierLoaded, data, fetched, pc, step, idx, written,
                   error, exitCode>>

\* fetchAPI: fetch rejects, the status is not ok or the body is not JSON; the
\* catch block returns null
FetchFails(e) ==
    /\ pc = "FETCHING"
    /\ fetchState[e] = "pending"
    /\ fetchState' = [fetchState EXCEPT ![e] = "failed"]
    /\ UNCHANGED <<sootVars, api, minifierLoaded, data, fetched, pc, step, idx, written,
                   error, exitCode>>

\* locations and vehicles exchanged in the destructuring of line 42
FetchAllDataReturns_Swapped ==
    /\ pc = "FETCHING"
    /\ \A e \in Endpoints : fetchState[e] # "pending"
    /\ data' = [e \in Endpoints |->
                  LET from == IF e = "locations" THEN "vehicles"
                              ELSE IF e = "vehicles" THEN "locations" ELSE e
                  IN  IF fetchState[from] = "ok" THEN Arr(api[from]) ELSE NullArr]
    /\ fetched' = data'
    /\ pc' = "VALIDATING"
    /\ step' = "validate"
    /\ UNCHANGED <<sootVars, api, minifierLoaded, fetchState, idx, written, error, exitCode>>

\* fetchAllData: Promise.all resolves once the five fetchAPI promises have
FetchAllDataReturns ==
    /\ pc = "FETCHING"
    /\ \A e \in Endpoints : fetchState[e] # "pending"
    /\ data' = [e \in Endpoints |->
                  IF fetchState[e] = "ok" THEN Arr(api[e]) ELSE NullArr]
    /\ fetched' = data'
    /\ pc' = "VALIDATING"
    /\ step' = "validate"
    /\ UNCHANGED <<sootVars, api, minifierLoaded, fetchState, idx, written, error, exitCode>>

----------------------------------------------------------------------------
(* MAIN, lines 683-710, and FILE GENERATION, lines 640-677 *)

\* the check without its third operand
RequiredMissing_NoSpecies(d) == d.films.null \/ d.people.null

\* !data.films || !data.people || !data.species
RequiredMissing(d) == d.films.null \/ d.people.null \/ d.species.null

\* lines 689-692
Validate ==
    /\ pc = "VALIDATING"
    /\ IF RequiredMissing(data)
       THEN /\ pc' = "FAILED"
            /\ exitCode' = 1
            /\ step' = "exit"
       ELSE /\ pc' = "RENDERING"
            /\ step' = "log"
            /\ UNCHANGED exitCode
    /\ UNCHANGED <<sootVars, api, minifierLoaded, fetchState, data, fetched, idx, written,
                   error>>

\* a catch block that logs and lets the process end normally
Caught_NoExit(e) ==
    /\ error' = e
    /\ pc' = "FAILED"
    /\ step' = "exit"
    /\ exitCode' = 0

\* the catch block of main, lines 706-709
Caught(e) ==
    /\ error' = e
    /\ pc' = "FAILED"
    /\ step' = "exit"
    /\ exitCode' = 1

\* lines 694-698: data.locations.length and data.vehicles.length are read
\* without a null check
LogLoaded ==
    /\ pc = "RENDERING"
    /\ step = "log"
    /\ IF data.locations.null \/ data.vehicles.null
       THEN Caught("TypeError")
       ELSE /\ step' = "index"
            /\ UNCHANGED <<pc, error, exitCode>>
    /\ UNCHANGED <<sootVars, api, minifierLoaded, fetchState, data, fetched, idx, written>>

File(name, html) == [name |-> name, html |-> html, content |-> minifyHTML(html)]

\* lines 642-650: generateIndexPage sorts data.films in place
WriteIndex ==
    /\ pc = "RENDERING"
    /\ step = "index"
    /\ written' = Append(written, File(IndexHref, generateIndexPage(data.films.items)))
    /\ data' = [data EXCEPT !.films = Arr(SortFilms(data.films.items))]
    /\ step' = "films"
    /\ idx' = 1
    /\ UNCHANGED <<sootVars, api, minifierLoaded, fetchState, fetched, pc, error, exitCode>>

\* lines 655-660, one iteration
WriteFilm ==
    /\ pc = "RENDERING"
    /\ step = "films"
    /\ idx <= Len(data.films.items)
    /\ LET film == data.films.items[idx]
       IN  IF generateFilmPageThrows(film.id, data)
           THEN /\ Caught("TypeError")
                /\ UNCHANGED <<written, idx>>
           ELSE /\ written' = Append(written,
                       File(FilmHref(film.id), generateFilmPage(film, film.id, data)))
                /\ idx' = idx + 1
                /\ UNCHANGED <<pc, step, error, exitCode>>
    /\ UNCHANGED <<sootVars, api, minifierLoaded, fetchState, data, fetched>>

\* a loop that stops one film early
FilmsDone_Early ==
    /\ pc = "RENDERING"
    /\ step = "films"
    /\ idx >= Len(data.films.items)
    /\ step' = "species"
    /\ idx' = 1
    /\ UNCHANGED <<sootVars, api, minifierLoaded, fetchState, data, fetched, pc, written, error,
                   exitCode>>

\* line 661
FilmsDone ==
    /\ pc = "RENDERING"
    /\ step = "films"
    /\ idx > Len(data.films.items)
    /\ step' = "species"
    /\ idx' = 1
    /\ UNCHANGED <<sootVars, api, minifierLoaded, fetchState, data, fetched, pc, written, error,
                   exitCode>>

\* lines 667-672, one iteration
WriteSpecies ==
    /\ pc = "RENDERING"
    /\ step = "species"
    /\ idx <= Len(data.species.items)
    /\ LET species == data.species.items[idx]
       IN  IF generateSpeciesPageThrows(species)
           THEN /\ Caught("TypeError")
                /\ UNCHANGED <<written, idx>>
           ELSE /\ written' = Append(written,
                       File(SpeciesHref(species.id),
                            generateSpeciesPage(species, species.id, data)))
                /\ idx' = idx + 1
                /\ UNCHANGED <<pc, step, error, exitCode>>
    /\ UNCHANGED <<sootVars, api, minifierLoaded, fetchState, data, fetched>>

\* lines 673-676 and 702-705: main returns and the process ends with status 0
GenerationComplete ==
    /\ pc = "RENDERING"
    /\ step = "species"
    /\ idx > Len(data.species.items)
    /\ pc' = "DONE"
    /\ step' = "exit"
    /\ exitCode' = 0
    /\ UNCHANGED <<sootVars, api, minifierLoaded, fetchState, data, fetched, idx, written, error>>

\* a failed write that removes the files written so far
WriteThrows_Rollback ==
    /\ pc = "RENDERING"
    /\ \/ step = "index"
       \/ step = "films" /\ idx <= Len(data.films.items)
       \/ step = "species" /\ idx <= Len(data.species.items)
    /\ Caught("EIO")
    /\ written' = <<>>
    /\ UNCHANGED <<sootVars, api, minifierLoaded, fetchState, data, fetched, idx>>

\* fs.mkdirSync or fs.writeFileSync throws; nothing is appended to written
WriteThrows ==
    /\ pc = "RENDERING"
    /\ \/ step = "index"
       \/ step = "films" /\ idx <= Len(data.films.items)
       \/ step = "species" /\ idx <= Len(data.species.items)
    /\ Caught("EIO")
    /\ UNCHANGED <<sootVars, api, minifierLoaded, fetchState, data, fetched, idx, written>>

Render ==
    \/ WriteIndex
    \/ WriteFilm
    \/ FilmsDone
    \/ WriteSpecies
    \/ GenerationComplete
    \/ WriteThrows

Next ==
    \/ \E e \in Endpoints : FetchSucceeds(e)
    \/ \E e \in Endpoints : FetchFails(e)
    \/ FetchAllDataReturns
    \/ Validate
    \/ LogLoaded
    \/ Render

\* generateStaticFiles, lines 640-677, without the writes: the pages of one
\* pass over d, in the order in which they are generated
RenderPass(d) ==
    LET d2 == [d EXCEPT !.films = Arr(SortFilms(d.films.items))]
    IN  <<generateIndexPage(d.films.items)>>
        \o [i \in DOMAIN d2.films.items |->
              generateFilmPage(d2.films.items[i], d2.films.items[i].id, d2)]
        \o [i \in DOMAIN d2.species.items |->
              generateSpeciesPage(d2.species.items[i], d2.species.items[i].id, d2)]

Spec == Init /\ [][Next]_vars

\* the five fetches settle and the synchronous code of main runs on
FairSpec == Spec /\ WF_vars(Next)

\* rendering, from the state in which generateStaticFiles is called after all
\* five fetches succeeded
InitRender ==
    /\ SootIdle
    /\ api \in RenderAnswers
    /\ minifierLoaded \in BOOLEAN
    /\ fetchState = [e \in Endpoints |-> "ok"]
    /\ data = [e \in Endpoints |-> Arr(api[e])]
    /\ fetched = data
    /\ pc = "RENDERING"
    /\ step = "index"
    /\ idx = 0
    /\ written = <<>>
    /\ error = "none"
    /\ exitCode = -1

SpecRender == InitRender /\ [][Render]_vars

----------------------------------------------------------------------------
(* Soot easter egg, src/unnamed/part_000.  Time is in milliseconds; a timer *)
(* is pending for as long as its explosion record says so, and is due when  *)
(* the age of the explosion reaches its delay.  The size, trajectory and    *)
(* rotation that createParticle draws only style the particle.              *)

HideDelay == 1100
ParticleDelay == 1450
MinParticles == 22
ParticleSpread == 16

\* the six .soot-sprite elements of the index template, two of them modelled
Sprites == {1, 2}

\* Math.random(), in thousandths
RandomDraws == {0, 500, 999}

\* the time between an event and a click that follows it
ClickGaps == {0, 100, 350}

\* the page when the script has loaded: no generator is running
GeneratorIdle ==
    /\ api = Empty
    /\ minifierLoaded = FALSE
    /\ fetchState = [e \in Endpoints |-> "pending"]
    /\ data = NoData
    /\ fetched = NoData
    /\ pc = "FETCHING"
    /\ step = "fetch"
    /\ idx = 0
    /\ written = <<>>
    /\ error = "none"
    /\ exitCode = -1

generatorVars ==
    <<api, minifierLoaded, fetchState, data, fetched, pc, step, idx, written, error,
      exitCode>>

InitSoot ==
    /\ GeneratorIdle
    /\ sootReady = FALSE
    /\ sprite = [s \in Sprites |-> [exploding |-> FALSE, hidden |-> FALSE, animation |-> ""]]
    /\ explosions = <<>>
    /\ clicks = 0
    /\ lastClick = 0

\* line 75: the timer set at DOMContentLoaded runs initSootEasterEgg
InitSootEasterEgg ==
    /\ ~sootReady
    /\ sootReady' = TRUE
    /\ UNCHANGED <<generatorVars, sprite, explosions, clicks, lastClick>>

\* 22 + floor(random * 17)
ParticleCount_Wide(r) == MinParticles + (r * (ParticleSpread + 1)) \div 1000

\* line 26: 22 + Math.floor(Math.random() * 16)
ParticleCount(r) == MinParticles + (r * ParticleSpread) \div 1000

\* the guard of line 14 left out
AlreadyExploding_Never(sp) == FALSE

\* line 14: sprite.classList.contains('soot-exploding')
AlreadyExploding(sp) == sp.exploding

\* an explosion that shows the sprite again
MarkExploding_Reform(sp) ==
    [sp EXCEPT !.exploding = TRUE, !.hidden = FALSE, !.animation = "sootDisintegrate"]

\* lines 21-23
MarkExploding(sp) == [sp EXCEPT !.exploding = TRUE, !.animation = "sootDisintegrate"]

\* lines 33-35, the callback of the sprite's timer
HideSprite(sp) == [sp EXCEPT !.hidden = TRUE, !.exploding = FALSE, !.animation = ""]

\* lines 25-36 and 64-69: n particles appended to the body, one timer of
\* ParticleDelay for each, and one timer of HideDelay for the sprite
NewExplosion(s, n) ==
    [sprite |-> s, age |-> 0, spawned |-> n, live |-> n, removed |-> 0,
     hideFired |-> FALSE, hiddenAt |-> -1, removedAt |-> -1]

HasTimers(e) == ~e.hideFired \/ e.live > 0

\* the times until the pending timers are due
Remaining ==
    {HideDelay - explosions[i].age : i \in {j \in DOMAIN explosions : ~explosions[j].hideFired}}
    \cup
    {ParticleDelay - explosions[i].age : i \in {j \in DOMAIN explosions : explosions[j].live > 0}}

\* t milliseconds pass
Aged(t) ==
    [i \in DOMAIN explosions |->
        IF HasTimers(explosions[i])
        THEN [explosions[i] EXCEPT !.age = @ + t]
        ELSE explosions[i]]

\* lines 6-9 and 13-36: the click listener of sprite s, gap milliseconds
\* after the previous event and before any timer that is due later
Click(s, gap, r) ==
    /\ sootReady
    /\ clicks < MaxClicks
    /\ \A t \in Remaining : gap <= t
    /\ clicks' = clicks + 1
    /\ lastClick' = s
    /\ IF AlreadyExploding(sprite[s])
       THEN /\ explosions' = Aged(gap)
            /\ UNCHANGED sprite
       ELSE /\ sprite' = [sprite EXCEPT ![s] = MarkExploding(@)]
            /\ explosions' = Append(Aged(gap), NewExplosion(s, ParticleCount(r)))
    /\ UNCHANGED <<generatorVars, sootReady>>

\* lines 32-36: the timer of explosion i is the next one due
HideTimerFires(i) ==
    /\ ~explosions[i].hideFired
    /\ \A t \in Remaining : HideDelay - explosions[i].age <= t
    /\ LET t == HideDelay - explosions[i].age
       IN  explosions' = [Aged(t) EXCEPT ![i].hideFired = TRUE,
                                         ![i].hiddenAt = explosions[i].age + t]
    /\ sprite' = [sprite EXCEPT ![explosions[i].sprite] = HideSprite(@)]
    /\ UNCHANGED <<generatorVars, sootReady, clicks, lastClick>>

\* lines 67-69: the timer of one particle of explosion i is the next one due
ParticleTimerFires(i) ==
    /\ explosions[i].live > 0
    /\ \A t \in Remaining : ParticleDelay - explosions[i].age <= t
    /\ LET t == ParticleDelay - explosions[i].age
       IN  explosions' = [Aged(t) EXCEPT ![i].live = @ - 1,
                                         ![i].removed = @ + 1,
                                         ![i].removedAt = explosions[i].age + t]
    /\ UNCHANGED <<generatorVars, sootReady, sprite, clicks, lastClick>>

TimerFires ==
    \E i \in DOMAIN explosions : HideTimerFires(i) \/ ParticleTimerFires(i)

NextSoot ==
    \/ InitSootEasterEgg
    \/ \E s \in Sprites, gap \in ClickGaps, r \in RandomDraws : Click(s, gap, r)
    \/ \E i \in DOMAIN explosions : HideTimerFires(i)
    \/ \E i \in DOMAIN explosions : ParticleTimerFires(i)

SpecSoot == InitSoot /\ [][NextSoot]_vars

\* the event loop runs every timer that is due
FairSpecSoot == SpecSoot /\ WF_vars(TimerFires)

----------------------------------------------------------------------------
(* Properties *)

Terminal == {"DONE", "FAILED"}

WrittenNames == {written[i].name : i \in DOMAIN written}

FilmPages == {written[i].html : i \in {j \in DOMAIN written : written[j].html.kind = "film"}}

SpeciesPages ==
    {written[i].html : i \in {j \in DOMAIN written : written[j].html.kind = "species"}}

IndexPages == {written[i].html : i \in {j \in DOMAIN written : written[j].html.kind = "index"}}

\* C1: once fetchAllData has returned with films, people or species null, no
\* file is ever written, the run never gets past validation, and it ends in
\* FAILED with exit status 1.
C1_RequiredMissingAborts ==
    (pc # "FETCHING" /\ (data.films.null \/ data.people.null \/ data.species.null))
        => /\ written = <<>>
           /\ pc \in {"VALIDATING", "FAILED"}
           /\ pc = "FAILED" => exitCode = 1
           /\ exitCode # 0

C1_Witness ==
    /\ pc = "FAILED"
    /\ exitCode = 1
    /\ data.species.null
    /\ ~data.films.null
    /\ ~data.people.null

\* C2: when films, people and species were fetched and locations or vehicles
\* is null, a run in which no write fails ends in DONE with exit status 0,
\* with every page written and the None tag in the Locations or Vehicles
\* section of each film page.
C2_OptionalMissingCompletes ==
    (/\ pc \in Terminal
     /\ ~data.films.null /\ ~data.people.null /\ ~data.species.null
     /\ data.locations.null \/ data.vehicles.null
     /\ error # "EIO")
        => /\ pc = "DONE"
           /\ exitCode = 0
           /\ Len(written) = 1 + Len(data.films.items) + Len(data.species.items)
           /\ \A page \in FilmPages :
                /\ data.locations.null => page.locationsList = <<NoneTag>>
                /\ data.vehicles.null => page.vehiclesList = <<NoneTag>>

\* C3: a run goes FETCHING, VALIDATING, RENDERING in that order, RENDERING
\* only with the three required collections present, and ends in DONE with
\* exit status 0 or in FAILED with exit status 1, after which nothing happens.
C3_OrderStep ==
    <<pc, pc'>> \in {<<"FETCHING", "FETCHING">>, <<"FETCHING", "VALIDATING">>,
                     <<"VALIDATING", "RENDERING">>, <<"VALIDATING", "FAILED">>,
                     <<"RENDERING", "RENDERING">>, <<"RENDERING", "DONE">>,
                     <<"RENDERING", "FAILED">>}

C3_ExitStatus ==
    /\ pc = "DONE" => exitCode = 0
    /\ pc = "FAILED" => exitCode = 1
    /\ pc \notin Terminal => exitCode = -1
    /\ pc = "RENDERING" =>
          ~data.films.null /\ ~data.people.null /\ ~data.species.null

C3_Lifecycle ==
    /\ pc = "FETCHING"
    /\ [][C3_OrderStep /\ pc \notin Terminal]_vars
    /\ []C3_ExitStatus
    /\ <>(pc \in Terminal)

C3_Witness ==
    /\ pc = "FAILED"
    /\ error = "TypeError"
    /\ exitCode = 1

\* C4: at DONE the files written are index.html, film_<id>.html for each
\* fetched film and species_<id>.html for each fetched species, each once,
\* index.html first, then the film pages, then the species pages.
C4_ExpectedFilms == {FilmHref(fetched.films.items[i].id) : i \in DOMAIN fetched.films.items}

C4_ExpectedSpecies ==
    {SpeciesHref(fetched.species.items[i].id) : i \in DOMAIN fetched.species.items}

C4_Rank(name) ==
    IF name = IndexHref THEN 0 ELSE IF name \in C4_ExpectedFilms THEN 1 ELSE 2

NonNull(hrefs) == hrefs \ {Null}

Links(page) ==
    IF page.kind = "index"
    THEN {page.cards[i].href : i \in DOMAIN page.cards}
    ELSE IF page.kind = "film"
    THEN {page.back}
         \cup NonNull({page.characters[i].speciesLink.href : i \in DOMAIN page.characters})
         \cup NonNull({page.speciesList[i].href : i \in DOMAIN page.speciesList})
    ELSE {page.back}
         \cup NonNull({page.filmsList[i].href : i \in DOMAIN page.filmsList})

C5_LinksResolve ==
    pc = "DONE" => \A i \in DOMAIN written : Links(written[i].html) \subseteq WrittenNames

C5_Witness ==
    /\ pc = "DONE"
    /\ \E page \in FilmPages : \E i \in DOMAIN page.characters :
          /\ page.characters[i].speciesLink.href # Null
          /\ Includes(page.characters[i].person.species, Slash)
    /\ \E page \in FilmPages : \E i \in DOMAIN page.speciesList :
          page.speciesList[i].href # Null
    /\ \E page \in SpeciesPages : \E i \in DOMAIN page.filmsList :
          page.filmsList[i].href # Null

\* C6: the index page has one card per fetched film, in ascending order of
\* parseInt(release_date), films with the same year in fetched order.
C6_Year(film) == ParseInt(film.release_date)

C6_Position(film) ==
    CHOOSE i \in DOMAIN fetched.films.items : fetched.films.items[i] = film

C6_IndexSorted ==
    \A page \in IndexPages :
        /\ Len(page.cards) = Len(fetched.films.items)
        /\ \A i \in DOMAIN fetched.films.items :
              Cardinality({k \in DOMAIN page.cards :
                              page.cards[k].film = fetched.films.items[i]}) = 1
        /\ \A j, k \in DOMAIN page.cards :
              j < k =>
                \/ C6_Year(page.cards[j].film) < C6_Year(page.cards[k].film)
                \/ /\ C6_Year(page.cards[j].film) = C6_Year(page.cards[k].film)
                   /\ C6_Position(page.cards[j].film) < C6_Position(page.cards[k].film)

C6_Witness ==
    \E page \in IndexPages :
        /\ \E j, k \in DOMAIN page.cards :
              /\ j < k
              /\ C6_Year(page.cards[j].film) = C6_Year(page.cards[k].film)
              /\ page.cards[j].film.release_date # page.cards[k].film.release_date
        /\ \E j, k \in DOMAIN page.cards :
              j < k /\ C6_Position(page.cards[j].film) > C6_Position(page.cards[k].film)

\* C7: a film page has a character card for a person exactly when one of the
\* person's film references has the film's id as its trailing path segment.
TrailingSegment(url) == Last(Split(url))

HasCard(page, person) ==
    \E k \in DOMAIN page.characters : page.characters[k].person = person

C7_CardIffTrailingSegment ==
    \A page \in FilmPages : \A i \in DOMAIN fetched.people.items :
        LET person == fetched.people.items[i]
        IN  HasCard(page, person)
              <=> /\ IsArray(person.films)
                  /\ \E u \in DOMAIN person.films.items :
                        TrailingSegment(person.films.items[u]) = page.film.id

\* C7 as amended: a film page has a character card for a person exactly when
\* one of the person's film references contains the film's id as a substring.
C7_CardIffIdSubstring ==
    \A page \in FilmPages : \A i \in DOMAIN fetched.people.items :
        LET person == fetched.people.items[i]
        IN  HasCard(page, person)
              <=> /\ IsArray(person.films)
                  /\ \E u \in DOMAIN person.films.items :
                        Includes(person.films.items[u], page.film.id)

C7_Witness ==
    \E page \in FilmPages :
        /\ \E i \in DOMAIN fetched.people.items :
              LET person == fetched.people.items[i]
              IN  /\ HasCard(page, person)
                  /\ \E u \in DOMAIN person.films.items :
                        TrailingSegment(person.films.items[u]) = page.film.id
        /\ \E i \in DOMAIN fetched.people.items :
              LET person == fetched.people.items[i]
              IN  /\ HasCard(page, person)
                  /\ \A u \in DOMAIN person.films.items :
                        TrailingSegment(person.films.items[u]) # page.film.id
        /\ \E i \in DOMAIN fetched.people.items :
              LET person == fetched.people.items[i]
              IN  /\ ~HasCard(page, person)
                  /\ Len(person.films.items) > 0

\* C8: on a species page a people or films reference whose trailing segment
\* is the name of a collection yields nothing, and any other reference yields
\* the entity whose id equals its trailing segment, if there is one.
C8_Resolves(url, array) ==
    /\ TrailingSegment(url) \notin CollectionNames
    /\ \E i \in DOMAIN array : array[i].id = TrailingSegment(url)

C8_Expected(refs, array) ==
    IF refs.null THEN <<>>
    ELSE LET ok == SelectSeq(refs.items, LAMBDA url : C8_Resolves(url, array))
         IN  [k \in DOMAIN ok |->
                array[CHOOSE i \in DOMAIN array : array[i].id = TrailingSegment(ok[k])]]

C8_SpeciesReferences ==
    \A page \in SpeciesPages :
        LET people == C8_Expected(page.species.people, fetched.people.items)
            films == C8_Expected(page.species.films, fetched.films.items)
        IN  /\ page.characters = people
            /\ page.filmsList =
                  IF films = <<>> THEN <<NoneTag>>
                  ELSE [k \in DOMAIN films |->
                          [href |-> FilmHref(films[k].id), label |-> films[k].title]]

C8_Witness ==
    \E page \in SpeciesPages :
        /\ ~page.species.people.null
        /\ \E u \in DOMAIN page.species.people.items :
              /\ TrailingSegment(page.species.people.items[u]) = sPeople
              /\ \E i \in DOMAIN fetched.people.items :
                    fetched.people.items[i].id = sPeople
        /\ ~page.species.films.null
        /\ \E u \in DOMAIN page.species.films.items :
              /\ TrailingSegment(page.species.films.items[u]) = sFilms
              /\ \E i \in DOMAIN fetched.films.items :
                    fetched.films.items[i].id = sFilms

\* C9: the pages a finished run generated are the pages a second pass over
\* the dataset left in memory generates, and the pages a pass over the
\* dataset as fetched generates.
WrittenHtml == [i \in DOMAIN written |-> written[i].html]

C9_RenderRepeatable ==
    pc = "DONE" =>
        /\ RenderPass(data) = WrittenHtml
        /\ RenderPass(fetched) = WrittenHtml

C9_Witness ==
    /\ pc = "DONE"
    /\ data # fetched
    /\ \E i, j \in DOMAIN fetched.films.items :
          /\ i # j
          /\ C6_Year(fetched.films.items[i]) = C6_Year(fetched.films.items[j])

\* C10: after fetchAllData has returned, the five collections stay as they
\* were fetched.
C10_DataUnchanged == pc # "FETCHING" => data = fetched

\* C11: with all five collections fetched and no write failing, a run ends
\* in DONE with every page written, whatever the references of the entities
\* are (dangling ids, values that are not strings).
C11_MalformedReferenceTolerated ==
    (/\ pc \in Terminal
     /\ \A e \in Endpoints : ~data[e].null
     /\ error # "EIO")
        => /\ pc = "DONE"
           /\ Len(written) = 1 + Len(data.films.items) + Len(data.species.items)

\* C12: fetchAllData returns only when the five requests have settled, with
\* null for exactly the endpoints whose request failed and the records of
\* the endpoint under each other name; a settled request is never issued
\* again.
C12_Returned ==
    /\ pc = "FETCHING" => data = NoData
    /\ pc # "FETCHING" =>
          \A e \in Endpoints :
              /\ fetchState[e] \in {"ok", "failed"}
              /\ fetchState[e] = "failed" => fetched[e] = NullArr
              /\ fetchState[e] = "ok" => fetched[e] = Arr(api[e])

C12_NoRetry ==
    \A e \in Endpoints : fetchState[e] # "pending" => fetchState'[e] = fetchState[e]

C12_BatchFetch == []C12_Returned /\ [][C12_NoRetry]_vars

C12_Witness ==
    /\ pc = "VALIDATING"
    /\ fetchState["films"] = "ok"
    /\ fetchState["vehicles"] = "failed"
    /\ fetchState["locations"] = "ok"
    /\ Len(fetched.locations.items) > 0
    /\ fetched.vehicles.null

\* C15: a step of RENDERING that throws ends the run in FAILED with exit
\* status 1 and leaves the files written so far as they are; nothing is
\* rendered or written afterwards.
C15_FailStep ==
    (pc = "RENDERING" /\ pc' = "FAILED") =>
        /\ error' \in {"EIO", "TypeError"}
        /\ exitCode' = 1
        /\ written' = written

C15_ThrowAborts == [][C15_FailStep /\ pc # "FAILED"]_vars

C15_Witness ==
    /\ pc = "FAILED"
    /\ error = "EIO"
    /\ exitCode = 1
    /\ Len(written) >= 2

\* C17: in the Locations, Species and Vehicles sections of a film page the
\* count of the header is the number of entity tags of the list, and a list
\* without entity tags is exactly the None tag.
EntityTags(list) == SelectSeq(list, LAMBDA tag : tag # NoneTag)

SectionConsistent(count, list) ==
    /\ count = Len(EntityTags(list))
    /\ Len(EntityTags(list)) = 0 => list = <<NoneTag>>

C17_SectionCounts ==
    \A page \in FilmPages :
        /\ SectionConsistent(page.locationsCount, page.locationsList)
        /\ SectionConsistent(page.speciesCount, page.speciesList)
        /\ SectionConsistent(page.vehiclesCount, page.vehiclesList)

\* C13: a sprite whose timer has fired is hidden, and a hidden sprite stays
\* hidden through every later click and timer.
C13_HiddenAfterTimer ==
    \A i \in DOMAIN explosions :
        explosions[i].hideFired => sprite[explosions[i].sprite].hidden

C13_StaysHidden == \A s \in DOMAIN sprite : sprite[s].hidden => sprite'[s].hidden

C14_Timers(es) ==
    [i \in DOMAIN es |-> [live |-> es[i].live, hideFired |-> es[i].hideFired]]

C14_ClickStep ==
    clicks' = clicks + 1 =>
        LET s == lastClick'
        IN  /\ \A t \in Sprites \ {s} : sprite'[t] = sprite[t]
            /\ IF sprite[s].exploding
               THEN /\ sprite' = sprite
                    /\ C14_Timers(explosions') = C14_Timers(explosions)
               ELSE /\ sprite'[s].exploding
                    /\ Len(explosions') = Len(explosions) + 1
                    /\ explosions'[Len(explosions')].sprite = s
                    /\ explosions'[Len(explosions')].live > 0
                    /\ SubSeq(C14_Timers(explosions'), 1, Len(explosions))
                          = C14_Timers(explosions)

C14_ClickGuard == [][C14_ClickStep]_vars

C14_Witness ==
    /\ clicks > Len(explosions)
    /\ Len(explosions) = 1
    /\ sprite[lastClick].exploding
    /\ \E t \in Sprites : ~sprite[t].exploding

\* C16: an explosion spawns 22 to 37 particles; each is removed once, 1450 ms
\* after the click, when the timer of 1100 ms has already hidden the sprite;
\* a removal touches the particles of one explosion only, and in the end no
\* particle is left.
C16_Explosion(e) ==
    /\ e.spawned >= 22
    /\ e.spawned <= 37
    /\ e.live >= 0
    /\ e.live + e.removed = e.spawned
    /\ e.removed > 0 =>
          /\ e.removedAt = 1450
          /\ e.hideFired
          /\ e.hiddenAt = 1100
          /\ sprite[e.sprite].hidden

C16_OneRemoval ==
    \A i \in DOMAIN explosions :
        explosions'[i].live # explosions[i].live =>
            /\ explosions'[i].live = explosions[i].live - 1
            /\ \A j \in DOMAIN explosions \ {i} : explosions'[j].live = explosions[j].live

LiveParticles(e) == e.live

AllRemoved == \A i \in DOMAIN explosions : LiveParticles(explosions[i]) = 0

C16_Particles ==
    /\ [](\A i \in DOMAIN explosions : C16_Explosion(explosions[i]))
    /\ [][C16_OneRemoval]_vars
    /\ <>[]AllRemoved

C16_Witness ==
    \E i, j \in DOMAIN explosions :
        /\ i # j
        /\ explosions[i].removed > 0
        /\ explosions[i].live > 0
        /\ explosions[j].live > 0
        /\ explosions[j].removed = 0
        /\ explosions[i].spawned # explosions[j].spawned

====
